---- MODULE Spec2Model ----
(***************************************************************************)
(* Model of exceptions/export/export-ignore-rules.py: the pagination loop  *)
(* of fetch_data and the JSON / CSV export of main.                        *)
(*                                                                         *)
(* A Record (a JSON object of the API) is an ordered sequence of members   *)
(* [key, val]; a value carries its JSON type.  The server is the           *)
(* environment: each response is drawn from Responses when it is received. *)
(* requests, responses, opened and printed are the run's observable        *)
(* effects (HTTP requests sent, responses received, files opened for       *)
(* writing, lines printed), kept as histories.                             *)
(***************************************************************************)
EXTENDS Integers, Sequences, FiniteSets, TLC

(* ------------------------------ bounds -------------------------------- *)

\* Pages the model lets a run request (the code has no cap).
MaxPages == 3

(* ------------------------- program constants -------------------------- *)

StatusOK == 200
DefaultCount == 1000
JsonIndent == 2

json_filename == "paginated_results.json"
csv_filename == "paginated_results.csv"

(* ------------------------------- values -------------------------------- *)

IntVal(n) == [type |-> "int", n |-> n, s |-> ""]
StrVal(s) == [type |-> "str", n |-> 0, s |-> s]
NullVal == [type |-> "null", n |-> 0, s |-> ""]

Member(k, v) == [key |-> k, val |-> v]

\* Three records of the API: two with the same key set in different key
\* order, one that lacks the key "note".
RecA == << Member("id", IntVal(1)), Member("note", StrVal("x")) >>
RecB == << Member("note", NullVal), Member("id", IntVal(2)) >>
RecC == << Member("id", IntVal(3)) >>
Records == {RecA, RecB, RecC}

\* The non-empty 'exceptions' arrays a page may carry.
Pages == {<<r>> : r \in Records} \cup {<<r, s>> : r \in Records, s \in Records}

(* ------------------------------ responses ------------------------------ *)

\* What requests.get / response.json() yield for one request:
\*   fault "transport": requests.get raises (connection error, timeout);
\*   fault "malformed": the body of a 200 is not JSON, response.json() raises;
\*   otherwise a status and, for a 200, the parsed body: the set of its
\*   top-level fields and the value of its 'exceptions' field.
Resp(fault, status, fields, exceptions) ==
    [fault |-> fault, status |-> status, fields |-> fields, exceptions |-> exceptions]

Responses ==
    {Resp("transport", 0, {}, <<>>)}
    \cup {Resp("malformed", StatusOK, {}, <<>>)}
    \cup {Resp("none", 404, {"message"}, <<>>)}
    \cup {Resp("none", 500, {"exceptions"}, << RecA >>)}
    \cup {Resp("none", StatusOK, {}, <<>>)}
    \cup {Resp("none", StatusOK, {"message"}, <<>>)}
    \cup {Resp("none", StatusOK, {"exceptions"}, <<>>)}
    \cup {Resp("none", StatusOK, {"exceptions"}, p) : p \in Pages}

(* ------------------------------ state ---------------------------------- *)

VARIABLES
    pc,             \* "fetching" | "waiting" | "export" | "done" | "crashed"
    error,          \* the exception that ended the run, "none" if none
    category,       \* args.category
    count,          \* args.count
    access_token,   \* args.access_token
    output,         \* args.output
    page,           \* fetch_data's page counter
    results,        \* fetch_data's results, then main's
    requests,       \* the HTTP requests sent, in order
    responses,      \* the responses received, in order
    opened,         \* the files opened for writing, in order
    json_file,      \* paginated_results.json: [exists, text]
    csv_file,       \* paginated_results.csv: [exists, rows]
    initial_files,  \* the two files as they were when the run started
    printed         \* the lines printed (print(data) left out)

vars == << pc, error, category, count, access_token, output, page, results,
           requests, responses, opened, json_file, csv_file, initial_files,
           printed >>

Line(msg, n) == [msg |-> msg, n |-> n]

(* ------------------------------ JSON ----------------------------------- *)

\* The text json.dump writes, as a sequence of tokens.  Ws(n) is a line
\* break followed by n spaces.
Punct(c) == [t |-> "punct", s |-> c, n |-> 0]
StrTok(s) == [t |-> "str", s |-> s, n |-> 0]
NumTok(n) == [t |-> "num", s |-> "", n |-> n]
NullTok == [t |-> "null", s |-> "", n |-> 0]
Ws(n) == [t |-> "ws", s |-> "", n |-> n]
EofTok == [t |-> "eof", s |-> "", n |-> 0]

DumpValue(v) ==
    IF v.type = "int" THEN NumTok(v.n)
    ELSE IF v.type = "str" THEN StrTok(v.s)
    ELSE NullTok

RECURSIVE DumpMembers(_, _, _)
DumpMembers(rec, i, level) ==
    IF i > Len(rec) THEN <<>>
    ELSE (IF i = 1 THEN <<>> ELSE << Punct(",") >>)
         \o << Ws(JsonIndent * level), StrTok(rec[i].key), Punct(":"), DumpValue(rec[i].val) >>
         \o DumpMembers(rec, i + 1, level)

DumpObject(rec, level) ==
    IF rec = <<>> THEN << Punct("{"), Punct("}") >>
    ELSE << Punct("{") >> \o DumpMembers(rec, 1, level + 1)
         \o << Ws(JsonIndent * level), Punct("}") >>

RECURSIVE DumpElements(_, _, _)
DumpElements(list, i, level) ==
    IF i > Len(list) THEN <<>>
    ELSE (IF i = 1 THEN <<>> ELSE << Punct(",") >>)
         \o << Ws(JsonIndent * level) >> \o DumpObject(list[i], level)
         \o DumpElements(list, i + 1, level)

\* json.dump(results, json_file, indent=2)
json_dump(list) ==
    IF list = <<>> THEN << Punct("["), Punct("]") >>
    ELSE << Punct("[") >> \o DumpElements(list, 1, 1) \o << Ws(0), Punct("]") >>

(* ------------------------------- CSV ----------------------------------- *)

\* str(value) as csv.writer writes a field; None is written as "".
CsvCell(v) ==
    IF v.type = "int" THEN ToString(v.n)
    ELSE IF v.type = "str" THEN v.s
    ELSE ""

keys(rec) == [j \in 1..Len(rec) |-> rec[j].key]
KeySet(rec) == {rec[j].key : j \in 1..Len(rec)}

\* rowdict.get(key, restval)
dict_get(rec, key, restval) ==
    IF key \in KeySet(rec)
    THEN (CHOOSE m \in {rec[j] : j \in 1..Len(rec)} : m.key = key).val
    ELSE restval

restval == StrVal("")

\* Variant: extrasaction='ignore', keys outside fieldnames are dropped.
wrong_fields_ignored(rowdict, fieldnames) == {}

\* DictWriter._dict_to_list with extrasaction='raise'
wrong_fields(rowdict, fieldnames) ==
    KeySet(rowdict) \ {fieldnames[j] : j \in 1..Len(fieldnames)}

dict_to_list(rowdict, fieldnames) ==
    [j \in 1..Len(fieldnames) |-> CsvCell(dict_get(rowdict, fieldnames[j], restval))]

\* DictWriter.writeheader
writeheader(fieldnames) == fieldnames

\* DictWriter.writerows: rows are written one by one; the first record with
\* a key outside fieldnames raises ValueError and the rows before it stay.
RECURSIVE writerows(_, _, _, _)
writerows(rows, i, fieldnames, acc) ==
    IF i > Len(rows) THEN [rows |-> acc, error |-> "none"]
    ELSE IF wrong_fields(rows[i], fieldnames) # {}
         THEN [rows |-> acc, error |-> "ValueError"]
         ELSE writerows(rows, i + 1, fieldnames,
                        Append(acc, dict_to_list(rows[i], fieldnames)))

(* ------------------------------ actions -------------------------------- *)

Url(cat, p, cnt) == [category |-> cat, page |-> p, count |-> cnt]

headers == [accept |-> "application/json", authorization |-> access_token]

OldJson == [exists |-> TRUE, text |-> << StrTok("old") >>]
OldCsv == [exists |-> TRUE, rows |-> << << "old" >> >>]
NoJson == [exists |-> FALSE, text |-> <<>>]
NoCsv == [exists |-> FALSE, rows |-> <<>>]

Init ==
    /\ pc = "fetching"
    /\ error = "none"
    /\ category \in {"licensing", "security"}
    /\ count = DefaultCount
    /\ access_token = "token"
    /\ output \in {"json", "csv"}
    /\ page = 1
    /\ results = <<>>
    /\ requests = <<>>
    /\ responses = <<>>
    /\ opened = <<>>
    /\ \E old \in BOOLEAN :
          /\ json_file = (IF old THEN OldJson ELSE NoJson)
          /\ csv_file = (IF old THEN OldCsv ELSE NoCsv)
    /\ initial_files = [json |-> json_file, csv |-> csv_file]
    /\ printed = <<>>

\* Lines 19-20: build the URL for the current page and send the GET.
SendRequest ==
    /\ pc = "fetching"
    /\ page <= MaxPages
    /\ requests' = Append(requests, [url |-> Url(category, page, count), headers |-> headers])
    /\ pc' = "waiting"
    /\ UNCHANGED << error, category, count, access_token, output, page, results,
                    responses, opened, json_file, csv_file, initial_files, printed >>

\* Variant: a 500 is handled like a 200.
IsSuccess_lenient(response) == response.status \in {StatusOK, 500}

\* Line 22: response.status_code == 200
IsSuccess(response) == response.status = StatusOK

\* Line 26: data and 'exceptions' in data
HasItems(data) == data.fields # {} /\ "exceptions" \in data.fields

\* Variants: an empty array never / always ends the loop.
is_empty_never(items) == FALSE
is_empty_always(items) == TRUE

\* Line 28: not items
is_empty(items) == items = <<>>

\* Variant: the page is put in front of the records collected so far.
extend_prepend(list, items) == items \o list

\* Line 31: results.extend(items)
extend(list, items) == list \o items

\* Variant: the counter skips a page.
next_page_skip(p) == p + 2

\* Line 32: page += 1
next_page(p) == p + 1

\* Variant: the format test always passes.
selected_always(fmt) == TRUE

\* Lines 52, 57: args.output == 'json' / 'csv'
selected(fmt) == output = fmt

\* Lines 20-37: requests.get returns (or raises) and the response is handled.
HandleResponse(response) ==
    /\ responses' = Append(responses, response)
    /\ IF response.fault = "transport"
       THEN /\ pc' = "crashed"
            /\ error' = "ConnectionError"
            /\ UNCHANGED << page, results, printed >>
       ELSE IF IsSuccess(response)
       THEN IF response.fault = "malformed"
            THEN /\ pc' = "crashed"
                 /\ error' = "JSONDecodeError"
                 /\ UNCHANGED << page, results, printed >>
            ELSE IF HasItems(response)
            THEN LET items == response.exceptions IN
                 IF is_empty(items)
                 THEN /\ pc' = "export"
                      /\ printed' = Append(printed, Line("paginate", page))
                      /\ UNCHANGED << error, page, results >>
                 ELSE /\ results' = extend(results, items)
                      /\ page' = next_page(page)
                      /\ pc' = "fetching"
                      /\ printed' = Append(printed, Line("paginate", page))
                      /\ UNCHANGED error
            ELSE /\ pc' = "export"
                 /\ printed' = Append(printed, Line("paginate", page))
                 /\ UNCHANGED << error, page, results >>
       ELSE /\ pc' = "export"
            /\ printed' = Append(printed, Line("failed", page))
            /\ UNCHANGED << error, page, results >>

ReceiveResponse ==
    /\ pc = "waiting"
    /\ \E response \in Responses : HandleResponse(response)
    /\ UNCHANGED << category, count, access_token, output, requests, opened,
                    json_file, csv_file, initial_files >>

\* Variant: the file is opened in append mode.
JsonExportAppend ==
    [exists |-> TRUE, text |-> json_file.text \o json_dump(results)]

\* Lines 52-56
JsonExport ==
    [exists |-> TRUE, text |-> json_dump(results)]

ExportJson ==
    /\ pc = "export"
    /\ selected("json")
    /\ opened' = Append(opened, json_filename)
    /\ json_file' = JsonExport
    /\ printed' = Append(printed, Line("complete", Len(results)))
    /\ pc' = "done"
    /\ UNCHANGED << error, category, count, access_token, output, page, results,
                    requests, responses, csv_file, initial_files >>

\* Variant: no header row is written.
CsvExportNoHeader ==
    IF results = <<>>
    THEN [rows |-> <<>>, error |-> "IndexError"]
    ELSE writerows(results, 1, keys(results[1]), <<>>)

\* Variant: an empty ResultSet is written as an empty file, without error.
CsvExportEmptyOk ==
    IF results = <<>>
    THEN [rows |-> <<>>, error |-> "none"]
    ELSE LET fieldnames == keys(results[1]) IN
         writerows(results, 1, fieldnames, << writeheader(fieldnames) >>)

\* Lines 57-64: open() truncates the file, then results[0] is read.
CsvExport ==
    IF results = <<>>
    THEN [rows |-> <<>>, error |-> "IndexError"]
    ELSE LET fieldnames == keys(results[1]) IN
         writerows(results, 1, fieldnames, << writeheader(fieldnames) >>)

ExportCsv ==
    /\ pc = "export"
    /\ selected("csv")
    /\ opened' = Append(opened, csv_filename)
    /\ LET w == CsvExport IN
        /\ csv_file' = [exists |-> TRUE, rows |-> w.rows]
        /\ error' = w.error
        /\ IF w.error = "none"
           THEN /\ pc' = "done"
                /\ printed' = Append(printed, Line("complete", Len(results)))
           ELSE /\ pc' = "crashed"
                /\ UNCHANGED printed
    /\ UNCHANGED << category, count, access_token, output, page, results,
                    requests, responses, json_file, initial_files >>

Next == SendRequest \/ ReceiveResponse \/ ExportJson \/ ExportCsv

Spec == Init /\ [][Next]_vars

(* ------------------------- reading the JSON back ----------------------- *)

\* json.load of a token text: [ok, val], val the array of records read.
\* Line breaks and indentation are skipped; anything but an array of
\* objects with scalar members is refused.
TokAt(toks, i) == IF i \in 1..Len(toks) THEN toks[i] ELSE EofTok

IsValueTok(tok) == tok.t \in {"num", "str", "null"}

LoadValue(tok) ==
    IF tok.t = "num" THEN IntVal(tok.n)
    ELSE IF tok.t = "str" THEN StrVal(tok.s)
    ELSE NullVal

ParseFail == [ok |-> FALSE, val |-> <<>>, next |-> 0]

RECURSIVE ParseMembers(_, _, _)
ParseMembers(toks, i, acc) ==
    IF /\ TokAt(toks, i).t = "str"
       /\ TokAt(toks, i + 1) = Punct(":")
       /\ IsValueTok(TokAt(toks, i + 2))
    THEN LET got == Append(acc, Member(toks[i].s, LoadValue(toks[i + 2]))) IN
         IF TokAt(toks, i + 3) = Punct(",") THEN ParseMembers(toks, i + 4, got)
         ELSE IF TokAt(toks, i + 3) = Punct("}")
              THEN [ok |-> TRUE, val |-> got, next |-> i + 4]
              ELSE ParseFail
    ELSE ParseFail

ParseObject(toks, i) ==
    IF TokAt(toks, i) # Punct("{") THEN ParseFail
    ELSE IF TokAt(toks, i + 1) = Punct("}")
         THEN [ok |-> TRUE, val |-> <<>>, next |-> i + 2]
         ELSE ParseMembers(toks, i + 1, <<>>)

RECURSIVE ParseElements(_, _, _)
ParseElements(toks, i, acc) ==
    LET obj == ParseObject(toks, i) IN
    IF ~obj.ok THEN ParseFail
    ELSE LET got == Append(acc, obj.val) IN
         IF TokAt(toks, obj.next) = Punct(",") THEN ParseElements(toks, obj.next + 1, got)
         ELSE IF TokAt(toks, obj.next) = Punct("]")
              THEN [ok |-> TRUE, val |-> got, next |-> obj.next + 1]
              ELSE ParseFail

json_load(text) ==
    LET toks == SelectSeq(text, LAMBDA tok : tok.t # "ws")
        arr == IF TokAt(toks, 1) # Punct("[") THEN ParseFail
               ELSE IF TokAt(toks, 2) = Punct("]")
                    THEN [ok |-> TRUE, val |-> <<>>, next |-> 3]
                    ELSE ParseElements(toks, 2, <<>>)
    IN IF arr.ok /\ arr.next = Len(toks) + 1
       THEN [ok |-> TRUE, val |-> arr.val]
       ELSE [ok |-> FALSE, val |-> <<>>]

(* --------------------------- properties -------------------------------- *)

IsNonEmptyPage(r) ==
    /\ r.fault = "none" /\ r.status = StatusOK
    /\ "exceptions" \in r.fields /\ r.exceptions # <<>>
IsEmptyArray(r) ==
    /\ r.fault = "none" /\ r.status = StatusOK
    /\ "exceptions" \in r.fields /\ r.exceptions = <<>>
IsMissingField(r) ==
    /\ r.fault = "none" /\ r.status = StatusOK
    /\ "exceptions" \notin r.fields
IsNon200(r) == r.fault = "none" /\ r.status # StatusOK
IsFatal(r) == r.fault \in {"transport", "malformed"}
IsTerminating(r) == IsEmptyArray(r) \/ IsMissingField(r) \/ IsNon200(r) \/ IsFatal(r)

FetchErrors == {"ConnectionError", "JSONDecodeError"}
InLoop == pc \in {"fetching", "waiting"}
Range(seq) == {seq[i] : i \in 1..Len(seq)}

\* The 'exceptions' arrays of the first n responses, concatenated.
RECURSIVE ConcatPages(_, _)
ConcatPages(resps, n) ==
    IF n = 0 THEN <<>> ELSE ConcatPages(resps, n - 1) \o resps[n].exceptions

\* The index of the first terminating response, Len + 1 if there is none.
FirstTerminating(resps) ==
    LET stops == {i \in 1..Len(resps) : IsTerminating(resps[i])} IN
    IF stops = {} THEN Len(resps) + 1
    ELSE CHOOSE i \in stops : \A k \in stops : i <= k

ValueOf(rec, key) == rec[CHOOSE j \in 1..Len(rec) : rec[j].key = key].val

\* The export ran in CSV mode (pagination did not end in a fatal error).
CsvExportRan ==
    /\ output = "csv"
    /\ pc \in {"done", "crashed"}
    /\ error \notin FetchErrors

\* The rows a complete CSV export of res holds: header, then one row per record.
ExpectedCsvRow(rec, header) ==
    [j \in 1..Len(header) |->
        IF header[j] \in KeySet(rec) THEN CsvCell(ValueOf(rec, header[j])) ELSE ""]
ExpectedCsv(res) ==
    << keys(res[1]) >> \o [i \in 1..Len(res) |-> ExpectedCsvRow(res[i], keys(res[1]))]

SelectedFile == IF output = "json" THEN json_filename ELSE csv_filename

(* C1: the ResultSet is, in every state and so when fetch_data returns it,  *)
(* the concatenation in request order of the arrays of the non-empty 200    *)
(* pages received before the first terminating response.                    *)
C1_ResultSetIsConcatenation ==
    /\ results = ConcatPages(responses, FirstTerminating(responses) - 1)
    /\ \A i \in 1..(FirstTerminating(responses) - 1) : IsNonEmptyPage(responses[i])

C1_Witness ==
    /\ pc = "export"
    /\ Len(responses) = 3
    /\ results = << RecB, RecA, RecC >>

(* C2: a 200 page with an empty array or without the field is the last      *)
(* request of the run: it is response number k+1 after k non-empty pages,   *)
(* nothing is requested after it, it adds no record, and the run goes on    *)
(* to the export.                                                           *)
C2_EmptyPageEndsPagination ==
    \A i \in 1..Len(responses) :
        (IsEmptyArray(responses[i]) \/ IsMissingField(responses[i])) =>
            /\ i = Len(responses)
            /\ Len(requests) = i
            /\ requests[i].url.page = i
            /\ \A j \in 1..(i - 1) : IsNonEmptyPage(responses[j])
            /\ results = ConcatPages(responses, i - 1)
            /\ ~InLoop
            /\ error \notin FetchErrors

C2_Witness ==
    /\ pc = "done"
    /\ Len(requests) = 3
    /\ IsMissingField(responses[3])
    /\ Len(results) = 4

(* C3 as stated: after a non-200 response nothing more is requested, the    *)
(* ResultSet holds the earlier pages only, and the export writes it to the  *)
(* output file (the run never ends in an error).                            *)
C3_Original ==
    \A i \in 1..Len(responses) :
        IsNon200(responses[i]) =>
            /\ i = Len(responses)
            /\ Len(requests) = i
            /\ results = ConcatPages(responses, i - 1)
            /\ pc \in {"export", "done"}

(* C3 amended: after a non-200 response nothing more is requested, the      *)
(* ResultSet holds the earlier pages only and is handed to the exporter;    *)
(* the JSON export always writes it, the CSV export writes it unless it is  *)
(* empty or a record has a key that the first record has not.               *)
C3_SoftStop ==
    \A i \in 1..Len(responses) :
        IsNon200(responses[i]) =>
            /\ i = Len(responses)
            /\ Len(requests) = i
            /\ \A j \in 1..(i - 1) : IsNonEmptyPage(responses[j])
            /\ results = ConcatPages(responses, i - 1)
            /\ pc \in {"export", "done", "crashed"}
            /\ error \notin FetchErrors
            /\ pc # "export" => opened = << SelectedFile >>
            /\ (pc = "done" /\ output = "json") =>
                   json_load(json_file.text) = [ok |-> TRUE, val |-> results]
            /\ (pc = "done" /\ output = "csv") =>
                   csv_file.rows = ExpectedCsv(results)
            /\ pc = "crashed" =>
                   /\ output = "csv"
                   /\ \/ results = <<>>
                      \/ \E k \in 1..Len(results) :
                            ~(KeySet(results[k]) \subseteq KeySet(results[1]))

C3_Witness ==
    /\ pc = "done"
    /\ Len(responses) = 3
    /\ IsNon200(responses[3])
    /\ responses[3].exceptions # <<>>
    /\ Len(results) = 3

(* C4: after a JSON export, reading the written text back gives the         *)
(* ResultSet itself (same records, same order, same length, the empty one   *)
(* included), and the count printed is its length.                          *)
C4_JsonRoundTrip ==
    (pc = "done" /\ output = "json") =>
        /\ json_file.exists
        /\ json_load(json_file.text).ok
        /\ json_load(json_file.text).val = results
        /\ Len(json_load(json_file.text).val) = Len(results)
        /\ printed[Len(printed)] = Line("complete", Len(results))

C4_Witness ==
    /\ pc = "done"
    /\ output = "json"
    /\ initial_files.json.exists
    /\ results = << RecB, RecC, RecA, RecA >>

(* C5: a CSV export of N >= 1 records with one key set completes and       *)
(* writes the header in the first record's key order, then N rows in        *)
(* ResultSet order, each holding the record's values by header key.         *)
C5_CsvUniformKeys ==
    (/\ CsvExportRan
     /\ results # <<>>
     /\ \A i \in 1..Len(results) : KeySet(results[i]) = KeySet(results[1])) =>
        /\ pc = "done"
        /\ csv_file.exists
        /\ Len(csv_file.rows) = 1 + Len(results)
        /\ csv_file.rows[1] = keys(results[1])
        /\ \A i \in 1..Len(results) :
              /\ Len(csv_file.rows[i + 1]) = Len(results[1])
              /\ \A j \in 1..Len(results[1]) :
                    csv_file.rows[i + 1][j] =
                        CsvCell(ValueOf(results[i], results[1][j].key))

C5_Witness ==
    /\ pc = "done"
    /\ output = "csv"
    /\ results = << RecB, RecA, RecB >>

(* C6 as stated: a CSV export of an empty ResultSet ends in an error and    *)
(* paginated_results.csv is neither created nor overwritten.                *)
C6_Original ==
    (CsvExportRan /\ results = <<>>) =>
        /\ pc = "crashed"
        /\ csv_file = initial_files.csv
        /\ csv_filename \notin Range(opened)

(* C6 amended: a CSV export of an empty ResultSet ends in an error          *)
(* (IndexError) before a header or a row is written, and nothing is         *)
(* reported; the file has been opened for writing by then, so it exists and *)
(* is empty, whatever it held before.                                       *)
C6_CsvEmptyFails ==
    (CsvExportRan /\ results = <<>>) =>
        /\ pc = "crashed"
        /\ error = "IndexError"
        /\ opened = << csv_filename >>
        /\ csv_file = [exists |-> TRUE, rows |-> <<>>]
        /\ \A k \in 1..Len(printed) : printed[k].msg # "complete"

C6_Witness ==
    /\ pc = "crashed"
    /\ error = "IndexError"
    /\ initial_files.csv.exists
    /\ IsEmptyArray(responses[1])

(* C7 as stated: when a record lacks a header key the CSV write fails and   *)
(* no row is emitted for that record.                                       *)
C7_Original ==
    (CsvExportRan /\ results # <<>>) =>
        \A i \in 1..Len(results) :
            ~(KeySet(results[1]) \subseteq KeySet(results[i])) =>
                /\ pc = "crashed"
                /\ Len(csv_file.rows) <= i

(* C7 amended: the CSV write fails (ValueError) exactly when some record    *)
(* has a key that is not a header key, and then no row is emitted for that  *)
(* record or a later one; a record that only lacks a header key gets its    *)
(* row, with an empty field in that column.                                 *)
C7_ExtraKeyFails ==
    (CsvExportRan /\ results # <<>>) =>
        LET header == keys(results[1])
            extra == {i \in 1..Len(results) :
                         ~(KeySet(results[i]) \subseteq KeySet(results[1]))}
        IN /\ (extra # {}) <=> (pc = "crashed" /\ error = "ValueError")
           /\ extra = {} => pc = "done" /\ Len(csv_file.rows) = 1 + Len(results)
           /\ \A i \in extra : Len(csv_file.rows) <= i
           /\ csv_file.rows[1] = header
           /\ \A i \in 1..(Len(csv_file.rows) - 1) :
                 csv_file.rows[i + 1] = ExpectedCsvRow(results[i], header)

C7_Witness ==
    /\ pc = "crashed"
    /\ error = "ValueError"
    /\ results = << RecC, RecC, RecA, RecC >>
    /\ csv_file.rows = << << "id" >>, << "3" >>, << "3" >> >>

(* C8: every request carries the number of requests sent before it plus    *)
(* one as its page (1, 2, 3, ...), and is sent only when every earlier      *)
(* request has been answered by a non-empty 200 page whose records are      *)
(* already in the ResultSet.                                                *)
C8_PagesInSequence ==
    [][requests' # requests =>
          /\ requests' = Append(requests, [url |-> Url(category, Len(requests) + 1, count),
                                           headers |-> headers])
          /\ page = Len(requests) + 1
          /\ Len(responses) = Len(requests)
          /\ \A i \in 1..Len(requests) : IsNonEmptyPage(responses[i])
          /\ results = ConcatPages(responses, Len(responses))]_vars

C8_Witness ==
    /\ pc = "waiting"
    /\ Len(requests) = 3
    /\ Len(responses) = 2
    /\ requests[3].url.page = 3

(* C9: no file is opened or changed while pagination runs or when it ends  *)
(* in a fatal error; a run opens at most one file, that of the selected     *)
(* format, and leaves the other format's file as it was.                    *)
C9_FilesUntouchedUntilExport ==
    /\ (pc \in {"fetching", "waiting", "export"} \/ error \in FetchErrors) =>
           /\ opened = <<>>
           /\ json_file = initial_files.json
           /\ csv_file = initial_files.csv
    /\ Len(opened) <= 1
    /\ Range(opened) \subseteq {SelectedFile}
    /\ output = "json" => csv_file = initial_files.csv
    /\ output = "csv" => json_file = initial_files.json

C9_Witness ==
    /\ pc = "crashed"
    /\ error = "JSONDecodeError"
    /\ Len(responses) = 3
    /\ initial_files.json.exists

(* C10: the loop has left exactly when a response was a non-200, an empty   *)
(* array, a body without the field or a fatal error; as long as every       *)
(* response is a non-empty page the loop goes on, the next request can be   *)
(* sent, and the export is not reached.                                     *)
C10_LoopEndsOnlyOnStop ==
    /\ InLoop <=> \A i \in 1..Len(responses) : IsNonEmptyPage(responses[i])
    /\ ~InLoop =>
           /\ responses # <<>>
           /\ LET last == responses[Len(responses)] IN
                 \/ IsNon200(last)
                 \/ IsEmptyArray(last)
                 \/ IsMissingField(last)
                 \/ IsFatal(last)
    /\ InLoop =>
           /\ opened = <<>>
           /\ \A k \in 1..Len(printed) : printed[k].msg = "paginate"
           /\ page = Len(responses) + 1
    /\ (pc = "fetching" /\ page <= MaxPages) => ENABLED SendRequest

C10_Witness ==
    /\ pc = "fetching"
    /\ page = MaxPages + 1
    /\ Len(results) >= MaxPages

====
